---- MODULE Spec2Model ----
\* Model of utils/windows_capture.py and utils/windows_input.py: window lookup,
\* window geometry, screen capture with BGRA -> RGB conversion, and synthetic
\* pointer input (move, click, drag).
EXTENDS Integers, Sequences, FiniteSets, TLC

\* --------------------------------------------------------------------------
\* Python numbers.
\* windows_input.py mixes int and float: "/" is true division and yields a
\* float (IEEE-754 binary64), int * float and int + float yield floats, and
\* int(...) truncates toward zero.  A float is modelled exactly, as a sign and
\* a binary fixed-point magnitude: an integer part and NumLimbs fraction limbs
\* of LimbBits bits each, most significant first.  Every arithmetic result is
\* rounded to DoublePrec significant bits, ties to even, as the hardware does.
\* The representation is exact for magnitudes in [2^-19, 2^31) and for
\* divisors and multipliers below 2^13, which covers pixel coordinates,
\* screen sizes and step counts.
\* --------------------------------------------------------------------------

\* Significant bits of a binary64 significand.
DoublePrec == 53

LimbBits == 18

NumLimbs == 4

LimbBase == 2^LimbBits

FracBits == NumLimbs * LimbBits

Abs(n) == IF n < 0 THEN -n ELSE n

Max(a, b) == IF a >= b THEN a ELSE b

\* Number of bits of the non-negative integer n (0 for 0).
BitLen(n) == IF n = 0 THEN 0 ELSE CHOOSE b \in 1..31 : n \div 2^(b-1) = 1

\* Integer quotient rounded toward zero, in exact integer arithmetic.
TruncDiv(a, b) == IF a >= 0 THEN a \div b ELSE -((-a) \div b)

Dbl(neg, int, frac) == [neg |-> neg, int |-> int, frac |-> frac]

ZeroFrac == [j \in 1..NumLimbs |-> 0]

IsZeroFrac(frac) == \A j \in 1..NumLimbs : frac[j] = 0

\* Bit k (1 = first after the binary point) of a fraction.
FracBit(frac, k) ==
    (frac[(k - 1) \div LimbBits + 1] \div 2^(LimbBits - 1 - ((k - 1) % LimbBits))) % 2

\* Number of zero bits between the binary point and the first one bit.
LeadingZeros(frac) ==
    IF IsZeroFrac(frac) THEN FracBits
    ELSE LET j == CHOOSE i \in 1..NumLimbs : frac[i] # 0 /\ \A l \in 1..(i-1) : frac[l] = 0
         IN  LimbBits * j - BitLen(frac[j])

\* Carry propagation: limbs that have grown past LimbBase give their excess
\* to the limb before them, the first limb to the integer part.
Normalize(neg, int, frac) ==
    LET c4 == frac[4] \div LimbBase
        v3 == frac[3] + c4
        c3 == v3 \div LimbBase
        v2 == frac[2] + c3
        c2 == v2 \div LimbBase
        v1 == frac[1] + c2
        c1 == v1 \div LimbBase
    IN  Dbl(neg, int + c1,
            <<v1 % LimbBase, v2 % LimbBase, v3 % LimbBase, frac[4] % LimbBase>>)

\* The fraction cut after its first keep bits.
ChopFrac(frac, keep) ==
    [j \in 1..NumLimbs |->
        IF LimbBits * j <= keep THEN frac[j]
        ELSE IF LimbBits * (j - 1) >= keep THEN 0
        ELSE LET s == LimbBits * j - keep IN (frac[j] \div 2^s) * 2^s]

\* One unit in fraction bit position keep (position 0 is the integer part).
UlpAt(keep) ==
    [j \in 1..NumLimbs |->
        IF LimbBits * (j - 1) < keep /\ keep <= LimbBits * j
        THEN 2^(LimbBits * j - keep) ELSE 0]

\* Round an exact magnitude to binary64, round-half-to-even.  sticky: the
\* exact value has non-zero bits beyond the last limb.
RoundDouble(x, sticky) ==
    LET keep    == IF x.int > 0 THEN DoublePrec - BitLen(x.int)
                   ELSE LeadingZeros(x.frac) + DoublePrec
        chopped == ChopFrac(x.frac, keep)
        half    == FracBit(x.frac, keep + 1) = 1
        rest    == sticky \/ \E k \in (keep + 2)..FracBits : FracBit(x.frac, k) = 1
        lastOdd == IF keep = 0 THEN x.int % 2 = 1 ELSE FracBit(x.frac, keep) = 1
        ulp     == UlpAt(keep)
    IN  IF keep >= FracBits \/ (x.int = 0 /\ IsZeroFrac(x.frac)) THEN x
        ELSE IF half /\ (rest \/ lastOdd)
        THEN Normalize(x.neg, x.int + (IF keep = 0 THEN 1 ELSE 0),
                       [j \in 1..NumLimbs |-> chopped[j] + ulp[j]])
        ELSE Dbl(x.neg, x.int, <<chopped[1], chopped[2], chopped[3], chopped[4]>>)

\* Python `n / m` for ints n >= 0, m > 0: long division, one limb at a time,
\* then rounding; what is left of the dividend after the last limb is sticky.
DivNat(n, m) ==
    LET r0 == n % m
        q1 == (r0 * LimbBase) \div m
        r1 == (r0 * LimbBase) % m
        q2 == (r1 * LimbBase) \div m
        r2 == (r1 * LimbBase) % m
        q3 == (r2 * LimbBase) \div m
        r3 == (r2 * LimbBase) % m
        q4 == (r3 * LimbBase) \div m
        r4 == (r3 * LimbBase) % m
    IN  RoundDouble(Dbl(FALSE, n \div m, <<q1, q2, q3, q4>>), r4 # 0)

\* Python `n / m` for ints n, m with m > 0.
TrueDiv(n, m) ==
    LET q == DivNat(Abs(n), m)
    IN  Dbl(n < 0, q.int, q.frac)

\* Python `d * x` for an int d and a float x: the exact product, rounded.
MulInt(d, x) ==
    LET a == Abs(d)
        e == Normalize(IF d < 0 THEN ~x.neg ELSE x.neg, x.int * a,
                       [j \in 1..NumLimbs |-> x.frac[j] * a])
    IN  IF d = 0 THEN Dbl(FALSE, 0, ZeroFrac) ELSE RoundDouble(e, FALSE)

\* 1 - 0.frac for a non-zero fraction.
OneMinus(frac) ==
    Normalize(FALSE, 0,
              [j \in 1..NumLimbs |->
                  LimbBase - 1 - frac[j] + (IF j = NumLimbs THEN 1 ELSE 0)]).frac

\* Python `s + x` for an int s and a float x: the exact sum, rounded.
AddInt(s, x) ==
    LET w == IF x.neg THEN -s ELSE s      \* s measured in the direction of x
        n == w + x.int
    IN  IF IsZeroFrac(x.frac)
        THEN Dbl((IF x.neg THEN -n ELSE n) < 0, Abs(n), ZeroFrac)
        ELSE IF n >= 0
             THEN RoundDouble(Dbl(x.neg, n, x.frac), FALSE)
             ELSE RoundDouble(Dbl(~x.neg, -n - 1, OneMinus(x.frac)), FALSE)

\* Python int(x) for a float x: truncation toward zero.
IntOf(x) == IF x.neg THEN -x.int ELSE x.int


\* Python round(x) for a float x: nearest integer, ties to even.
PyRound(x) ==
    LET half == 2^(LimbBits - 1)
        rest == \E j \in 2..NumLimbs : x.frac[j] # 0
        up   == x.frac[1] > half \/ (x.frac[1] = half /\ (rest \/ x.int % 2 = 1))
        n    == x.int + (IF up THEN 1 ELSE 0)
    IN  IF x.neg THEN -n ELSE n

\* --------------------------------------------------------------------------
\* windows_capture.py
\* --------------------------------------------------------------------------

\* Bounds of the model.
MaxWindows == 2

MaxW == 2

MaxH == 2

MaxMonitors == 3

Rect(left, top, right, bottom) ==
    [left |-> left, top |-> top, right |-> right, bottom |-> bottom]

WidthUnclamped(rect) == rect.right - rect.left

\* Rect.width
Width(rect) == Max(0, rect.right - rect.left)

\* Rect.height
Height(rect) == Max(0, rect.bottom - rect.top)

\* Values returned or raised by an operation.
NoneValue == [kind |-> "None"]

Value(kind, v) == [kind |-> kind, value |-> v]

Raised(exc) == [kind |-> "raise", value |-> exc]

\* Calls made to the operating system and to the capture library.
OsCall(api, arg) == [api |-> api, arg |-> arg]

\* _try_set_dpi_awareness: per-monitor awareness first, system awareness if
\* that raises, and every failure swallowed.  granted is what the OS accepts:
\* "per_monitor", "system" or "none".
try_set_dpi_awareness(granted) ==
    IF granted = "per_monitor"
    THEN <<OsCall("SetProcessDpiAwareness", 2)>>
    ELSE <<OsCall("SetProcessDpiAwareness", 2), OsCall("SetProcessDPIAware", 0)>>

DpiOutcomes == {"per_monitor", "system", "none"}

\* Titles and queries are sequences of characters.
UpperChars == <<"A","B","C","D","E","F","G","H","I","J","K","L","M",
                "N","O","P","Q","R","S","T","U","V","W","X","Y","Z">>

LowerChars == <<"a","b","c","d","e","f","g","h","i","j","k","l","m",
                "n","o","p","q","r","s","t","u","v","w","x","y","z">>

LowerChar(c) ==
    IF \E k \in 1..Len(UpperChars) : UpperChars[k] = c
    THEN LowerChars[CHOOSE k \in 1..Len(UpperChars) : UpperChars[k] = c]
    ELSE c

\* str.lower()
Lower(s) == [k \in 1..Len(s) |-> LowerChar(s[k])]

\* norm(s) inside find_window_hwnd
norm(s, case_sensitive) == IF case_sensitive THEN s ELSE Lower(s)

\* Python `q in t` for strings.
Contains(q, t) ==
    \E k \in 0..(Len(t) - Len(q)) : \A l \in 1..Len(q) : t[k + l] = q[l]

\* The for loop of find_window_hwnd from entry k on: return at the first
\* entry that matches, None when the entries run out.
RECURSIVE FindFrom(_, _, _, _, _)
FindFrom(windows, k, q, exact, case_sensitive) ==
    IF k > Len(windows) THEN NoneValue
    ELSE LET t == norm(windows[k][2], case_sensitive)
         IN  IF exact /\ t = q THEN Value("hwnd", windows[k][1])
             ELSE IF ~exact /\ Contains(q, t) THEN Value("hwnd", windows[k][1])
             ELSE FindFrom(windows, k + 1, q, exact, case_sensitive)

RECURSIVE FindLastFrom(_, _, _, _, _)
FindLastFrom(windows, k, q, exact, case_sensitive) ==
    IF k < 1 THEN NoneValue
    ELSE LET t == norm(windows[k][2], case_sensitive)
         IN  IF (exact /\ t = q) \/ (~exact /\ Contains(q, t))
             THEN Value("hwnd", windows[k][1])
             ELSE FindLastFrom(windows, k - 1, q, exact, case_sensitive)

find_last_window_hwnd(windows, title_query, exact, case_sensitive) ==
    FindLastFrom(windows, Len(windows), norm(title_query, case_sensitive),
                 exact, case_sensitive)

find_window_hwnd(windows, title_query, exact, case_sensitive) ==
    FindFrom(windows, 1, norm(title_query, case_sensitive), exact, case_sensitive)

\* Titles that list_visible_windows can report: stripped and not empty.
Titles ==
    { <<"F","o","o">>, <<"F","o","o","B","a","r">>, <<"B","a","z">>,
      <<"f","o","o">>, <<"c","l","a","s","h"," ","r","o","y","a","l","e">> }

Queries ==
    { <<>>, <<"f","o","o">>, <<"F","o","o">>, <<"f","o","o","b","a","r">>,
      <<"q","u","x">>, <<"C","l","a","s","h">>, <<"o","B">> }

\* Handles of the windows in enumeration order.
HwndAt(k) == 100 * k

\* The snapshots list_visible_windows can return: (hwnd, title) entries in
\* enumeration order.
Directories ==
    UNION { { [k \in 1..n |-> <<HwndAt(k), ts[k]>>] : ts \in [1..n -> Titles] }
            : n \in 0..MaxWindows }

Hwnds == {HwndAt(1), HwndAt(2)}

\* Screen positions of a window's origin.
Origins == { <<0, 0>>, <<8, 31>> }

\* Rects a caller can pass to capture_rect_bgra, malformed ones included.
Rects ==
    { Rect(o[1], o[2], o[1] + dw, o[2] + dh) :
        o \in Origins, dw \in (-1)..MaxW, dh \in (-1)..MaxH }

\* A pixel as the capture primitive delivers it: (blue, green, red, alpha).
PixelSamples == { <<255, 0, 0, 255>>, <<10, 20, 30, 40>> }

\* BGRA frames of h rows and w columns.
Frames(h, w) == [1..h -> [1..w -> PixelSamples]]

\* What sct.grab can deliver for a region: a frame of the region's size; for
\* an empty region the library either fails or delivers an empty frame.
GrabOutcomes(region) ==
    IF region.width > 0 /\ region.height > 0
    THEN { Value("bgra", f) : f \in Frames(region.height, region.width) }
    ELSE { Raised("ScreenShotError"), Value("bgra", <<>>) }

bgra_to_bgr(frame_bgra) ==
    [r \in 1..Len(frame_bgra) |->
        [c \in 1..Len(frame_bgra[r]) |->
            <<frame_bgra[r][c][1], frame_bgra[r][c][2], frame_bgra[r][c][3]>>]]

\* bgra_to_rgb: b, g, r are channels 0, 1, 2 of the input; the output stacks
\* r, g, b.
bgra_to_rgb(frame_bgra) ==
    [r \in 1..Len(frame_bgra) |->
        [c \in 1..Len(frame_bgra[r]) |->
            <<frame_bgra[r][c][3], frame_bgra[r][c][2], frame_bgra[r][c][1]>>]]

\* The monitor dict capture_rect_bgra hands to sct.grab.
GrabRegion(rect) ==
    [left |-> rect.left, top |-> rect.top, width |-> Width(rect), height |-> Height(rect)]

\* get_window_rect once the handle is known to be live: the client rect is
\* the window's origin in screen coordinates sized by GetClientRect; the
\* full rect is GetWindowRect as it comes.
get_window_rect(client_area, left_top, client, window) ==
    IF client_area
    THEN Rect(left_top[1], left_top[2],
              left_top[1] + (client[3] - client[1]),
              left_top[2] + (client[4] - client[2]))
    ELSE Rect(window[1], window[2], window[3], window[4])

\* The OS calls get_window_rect makes after the awareness attempt.
GeometryCalls(hwnd, client_area) ==
    IF client_area
    THEN <<OsCall("ClientToScreen", hwnd), OsCall("GetClientRect", hwnd)>>
    ELSE <<OsCall("GetWindowRect", hwnd)>>

\* sct.monitors[monitor_index]: displays of w x h pixels side by side.
MonitorRegion(monitor_index, w, h) ==
    [left |-> monitor_index * w, top |-> 0, width |-> w, height |-> h]

\* The check capture_fullscreen_rgb makes on monitor_index.
MonitorIndexOkInclusive(monitor_index, count) ==
    ~(monitor_index < 0 \/ monitor_index > count)

MonitorIndexOk(monitor_index, count) == ~(monitor_index < 0 \/ monitor_index >= count)


\* --------------------------------------------------------------------------
\* windows_input.py
\* --------------------------------------------------------------------------

MOUSEEVENTF_MOVE == 1

MOUSEEVENTF_LEFTDOWN == 2

MOUSEEVENTF_LEFTUP == 4

MOUSEEVENTF_RIGHTDOWN == 8

MOUSEEVENTF_RIGHTUP == 16

MOUSEEVENTF_ABSOLUTE == 32768

\* The largest normalized absolute coordinate.
AbsMax == 65535

\* Interpolated updates per second of drag.
UpdatesPerSecond == 60

\* The fewest interpolation steps of a drag.
MinSteps == 10

\* Primary screen resolutions GetSystemMetrics can report.
ScreenSizes == { <<1920, 1080>>, <<1366, 768>> }

\* Pixel positions callers aim at.
Points == { <<0, 0>>, <<22, 55>>, <<-7, 5>>, <<100, 50>> }

\* A duration of k sixteenths of a second, as the float the caller passes.
Sixteenths(k) == Dbl(FALSE, k \div 16, <<(k % 16) * 2^(LimbBits - 4), 0, 0, 0>>)

\* Durations callers pass to drag: 0, 0.1875, 0.3125, 0.375, the default 0.5,
\* and the 1.0 of tools/test_input.py.
Durations == { Sixteenths(k) : k \in {0, 3, 5, 6, 8, 16} }

to_absolute_rounded(x, y, screen) ==
    <<PyRound(TrueDiv(x * AbsMax, screen[1])), PyRound(TrueDiv(y * AbsMax, screen[2]))>>

\* _to_absolute_coords: int(x * 65535 / width), int(y * 65535 / height).
to_absolute_coords(x, y, screen) ==
    <<IntOf(TrueDiv(x * AbsMax, screen[1])), IntOf(TrueDiv(y * AbsMax, screen[2]))>>

\* An injected MOUSEINPUT: its dx, dy and dwFlags.  target is the pixel
\* position move_mouse was called with (empty for button events); it is not
\* part of the injected structure.
MouseInput(dx, dy, flags, target) ==
    [dx |-> dx, dy |-> dy, dwFlags |-> flags, target |-> target]

\* move_mouse(x, y)
move_mouse(x, y, screen) ==
    LET abs == to_absolute_coords(x, y, screen)
    IN  MouseInput(abs[1], abs[2], MOUSEEVENTF_MOVE + MOUSEEVENTF_ABSOLUTE, <<x, y>>)

mouse_down_as_up(left) ==
    MouseInput(0, 0, IF left THEN MOUSEEVENTF_LEFTUP ELSE MOUSEEVENTF_RIGHTUP, <<>>)

\* mouse_down(left)
mouse_down(left) ==
    MouseInput(0, 0, IF left THEN MOUSEEVENTF_LEFTDOWN ELSE MOUSEEVENTF_RIGHTDOWN, <<>>)

mouse_up_as_down(left) ==
    MouseInput(0, 0, IF left THEN MOUSEEVENTF_LEFTDOWN ELSE MOUSEEVENTF_RIGHTDOWN, <<>>)

\* mouse_up(left)
mouse_up(left) ==
    MouseInput(0, 0, IF left THEN MOUSEEVENTF_LEFTUP ELSE MOUSEEVENTF_RIGHTUP, <<>>)

\* steps = max(10, int(duration * 60))
Steps(duration) == Max(MinSteps, IntOf(MulInt(UpdatesPerSecond, duration)))

InterpolateFromZero(start, end, i, steps) ==
    IntOf(AddInt(start, MulInt(end - start, TrueDiv(i, steps))))

\* curr = int(start + (end - start) * t) with t = (i + 1) / steps
Interpolate(start, end, i, steps) ==
    IntOf(AddInt(start, MulInt(end - start, TrueDiv(i + 1, steps))))

IsMove(e) == e.dwFlags = MOUSEEVENTF_MOVE + MOUSEEVENTF_ABSOLUTE

IsButtonDown(e) == e.dwFlags \in {MOUSEEVENTF_LEFTDOWN, MOUSEEVENTF_RIGHTDOWN}

IsButtonUp(e) == e.dwFlags \in {MOUSEEVENTF_LEFTUP, MOUSEEVENTF_RIGHTUP}

\* --------------------------------------------------------------------------
\* The process: one caller thread that runs one operation at a time.
\* --------------------------------------------------------------------------

VARIABLES
    pc,            \* "idle", the statement of click_at / drag run next, or "returned"
    call,          \* the operation running, or the last one run, and its arguments
    result,        \* what the last operation returned or raised
    oscalls,       \* the OS and capture-library calls of that operation, in order
    events,        \* the MOUSEINPUTs that operation injected, in order
    dpiAttempted,  \* _try_set_dpi_awareness has run in this process
    button,        \* state of the left button: "up" or "down"
    steps,         \* drag: the local steps
    i              \* drag: the loop variable i

vars == <<pc, call, result, oscalls, events, dpiAttempted, button, steps, i>>

Init ==
    /\ pc = "idle"
    /\ call = [op |-> "none"]
    /\ result = NoneValue
    /\ oscalls = <<>>
    /\ events = <<>>
    /\ dpiAttempted = FALSE
    /\ button = "up"
    /\ steps = 0
    /\ i = 0

\* list_visible_windows()
ListVisibleWindows ==
    /\ pc = "idle"
    /\ \E windows \in Directories, granted \in DpiOutcomes :
        /\ call' = [op |-> "list_visible_windows"]
        /\ oscalls' = try_set_dpi_awareness(granted) \o <<OsCall("EnumWindows", 0)>>
        /\ result' = Value("windows", windows)
    /\ dpiAttempted' = TRUE
    /\ events' = <<>>
    /\ pc' = "returned"
    /\ UNCHANGED <<button, steps, i>>

\* find_window_hwnd(title_query, exact=..., case_sensitive=...)
FindWindow ==
    /\ pc = "idle"
    /\ \E windows \in Directories, title_query \in Queries,
          exact \in BOOLEAN, case_sensitive \in BOOLEAN, granted \in DpiOutcomes :
        /\ call' = [op |-> "find_window_hwnd", windows |-> windows,
                    title_query |-> title_query, exact |-> exact,
                    case_sensitive |-> case_sensitive]
        /\ oscalls' = try_set_dpi_awareness(granted) \o <<OsCall("EnumWindows", 0)>>
        /\ result' = find_window_hwnd(windows, title_query, exact, case_sensitive)
    /\ dpiAttempted' = TRUE
    /\ events' = <<>>
    /\ pc' = "returned"
    /\ UNCHANGED <<button, steps, i>>

\* get_window_rect(hwnd, client_area=...): the handle is live or not; a dead
\* handle makes the first geometry query raise.
GetRect ==
    /\ pc = "idle"
    /\ \E hwnd \in Hwnds, client_area \in BOOLEAN, granted \in DpiOutcomes,
          live \in BOOLEAN, o \in Origins, w \in 0..MaxW, h \in 0..MaxH :
        /\ call' = [op |-> "get_window_rect", hwnd |-> hwnd, client_area |-> client_area]
        /\ IF live
           THEN /\ oscalls' = try_set_dpi_awareness(granted)
                                 \o GeometryCalls(hwnd, client_area)
                /\ result' = Value("rect",
                                get_window_rect(client_area, o, <<0, 0, w, h>>,
                                                <<o[1], o[2], o[1] + w, o[2] + h>>))
           ELSE /\ oscalls' = try_set_dpi_awareness(granted)
                                 \o <<GeometryCalls(hwnd, client_area)[1]>>
                /\ result' = Raised("HandleInvalid")
    /\ dpiAttempted' = TRUE
    /\ events' = <<>>
    /\ pc' = "returned"
    /\ UNCHANGED <<button, steps, i>>

\* capture_rect_bgra(rect): returns the BGRA frame as grabbed.
CaptureRect ==
    /\ pc = "idle"
    /\ \E rect \in Rects :
        /\ call' = [op |-> "capture_rect_bgra", rect |-> rect]
        /\ oscalls' = <<OsCall("grab", GrabRegion(rect))>>
        /\ result' \in GrabOutcomes(GrabRegion(rect))
    /\ events' = <<>>
    /\ pc' = "returned"
    /\ UNCHANGED <<dpiAttempted, button, steps, i>>

\* capture_window_rgb(hwnd, client_area=...): get_window_rect, then
\* capture_rect_bgra, then bgra_to_rgb.  bgra keeps the grabbed frame.
CaptureWindow ==
    /\ pc = "idle"
    /\ \E hwnd \in Hwnds, client_area \in BOOLEAN, granted \in DpiOutcomes,
          live \in BOOLEAN, o \in Origins, w \in 0..MaxW, h \in 0..MaxH :
        LET rect == get_window_rect(client_area, o, <<0, 0, w, h>>,
                                    <<o[1], o[2], o[1] + w, o[2] + h>>)
        IN  IF live
            THEN \E shot \in GrabOutcomes(GrabRegion(rect)) :
                    /\ call' = [op |-> "capture_window_rgb", hwnd |-> hwnd,
                                client_area |-> client_area, bgra |-> shot]
                    /\ oscalls' = try_set_dpi_awareness(granted)
                                     \o GeometryCalls(hwnd, client_area)
                                     \o <<OsCall("grab", GrabRegion(rect))>>
                    /\ result' = IF shot.kind = "raise" THEN shot
                                 ELSE Value("rgb", bgra_to_rgb(shot.value))
            ELSE /\ call' = [op |-> "capture_window_rgb", hwnd |-> hwnd,
                             client_area |-> client_area, bgra |-> NoneValue]
                 /\ oscalls' = try_set_dpi_awareness(granted)
                                  \o <<GeometryCalls(hwnd, client_area)[1]>>
                 /\ result' = Raised("HandleInvalid")
    /\ dpiAttempted' = TRUE
    /\ events' = <<>>
    /\ pc' = "returned"
    /\ UNCHANGED <<button, steps, i>>

\* capture_fullscreen_rgb(monitor_index): count is len(sct.monitors), entry 0
\* being the box around all displays; w x h is the size of the entries.
CaptureMonitor ==
    /\ pc = "idle"
    /\ \E count \in 1..MaxMonitors, monitor_index \in (-1)..(MaxMonitors + 1),
          w \in 1..MaxW, h \in 1..MaxH :
        IF MonitorIndexOk(monitor_index, count)
        THEN \E shot \in GrabOutcomes(MonitorRegion(monitor_index, w, h)) :
                /\ call' = [op |-> "capture_fullscreen_rgb", count |-> count,
                            monitor_index |-> monitor_index, bgra |-> shot]
                /\ oscalls' = <<OsCall("grab", MonitorRegion(monitor_index, w, h))>>
                /\ result' = Value("rgb", bgra_to_rgb(shot.value))
        ELSE /\ call' = [op |-> "capture_fullscreen_rgb", count |-> count,
                         monitor_index |-> monitor_index, bgra |-> NoneValue]
             /\ oscalls' = <<>>
             /\ result' = Raised("ValueError")
    /\ events' = <<>>
    /\ pc' = "returned"
    /\ UNCHANGED <<dpiAttempted, button, steps, i>>

\* move_mouse(x, y)
MoveTo ==
    /\ pc = "idle"
    /\ \E p \in Points, screen \in ScreenSizes :
        /\ call' = [op |-> "move_mouse", x |-> p[1], y |-> p[2], screen |-> screen]
        /\ events' = <<move_mouse(p[1], p[2], screen)>>
    /\ result' = NoneValue
    /\ oscalls' = <<>>
    /\ pc' = "returned"
    /\ UNCHANGED <<dpiAttempted, button, steps, i>>

\* click_at(x, y): move_mouse(x, y); sleep
ClickAt ==
    /\ pc = "idle"
    /\ \E p \in Points, screen \in ScreenSizes :
        /\ call' = [op |-> "click_at", x |-> p[1], y |-> p[2], screen |-> screen]
        /\ events' = <<move_mouse(p[1], p[2], screen)>>
    /\ pc' = "click_down"
    /\ result' = [kind |-> "running"]
    /\ oscalls' = <<>>
    /\ UNCHANGED <<dpiAttempted, button, steps, i>>

\* click_at: mouse_down(); sleep(duration)
ClickDown ==
    /\ pc = "click_down"
    /\ events' = Append(events, mouse_down(TRUE))
    /\ button' = "down"
    /\ pc' = "click_up"
    /\ UNCHANGED <<call, result, oscalls, dpiAttempted, steps, i>>

\* click_at: mouse_up(); return
ClickUp ==
    /\ pc = "click_up"
    /\ events' = Append(events, mouse_up(TRUE))
    /\ button' = IF IsButtonUp(mouse_up(TRUE)) THEN "up" ELSE button
    /\ pc' = "returned"
    /\ result' = NoneValue
    /\ UNCHANGED <<call, oscalls, dpiAttempted, steps, i>>

\* drag(start_x, start_y, end_x, end_y, duration): move_mouse(start); sleep
Drag ==
    /\ pc = "idle"
    /\ \E start \in Points, end \in Points, duration \in Durations,
          screen \in ScreenSizes :
        /\ call' = [op |-> "drag", start_x |-> start[1], start_y |-> start[2],
                    end_x |-> end[1], end_y |-> end[2], duration |-> duration,
                    screen |-> screen]
        /\ events' = <<move_mouse(start[1], start[2], screen)>>
    /\ pc' = "drag_down"
    /\ result' = [kind |-> "running"]
    /\ oscalls' = <<>>
    /\ steps' = 0
    /\ i' = 0
    /\ UNCHANGED <<dpiAttempted, button>>

\* drag: mouse_down(); sleep; steps = max(10, int(duration * 60))
DragDown ==
    /\ pc = "drag_down"
    /\ events' = Append(events, mouse_down(TRUE))
    /\ button' = "down"
    /\ steps' = Steps(call.duration)
    /\ i' = 0
    /\ pc' = "drag_loop"
    /\ UNCHANGED <<call, result, oscalls, dpiAttempted>>

\* drag: one pass of `for i in range(steps)`
DragStep ==
    /\ pc = "drag_loop"
    /\ i < steps
    /\ events' = Append(events,
                    move_mouse(Interpolate(call.start_x, call.end_x, i, steps),
                               Interpolate(call.start_y, call.end_y, i, steps),
                               call.screen))
    /\ i' = i + 1
    /\ UNCHANGED <<pc, call, result, oscalls, dpiAttempted, button, steps>>

DragLandAtStart ==
    /\ pc = "drag_loop"
    /\ i >= steps
    /\ events' = Append(events, move_mouse(call.start_x, call.start_y, call.screen))
    /\ pc' = "drag_up"
    /\ UNCHANGED <<call, result, oscalls, dpiAttempted, button, steps, i>>

\* drag: the loop is over; move_mouse(end_x, end_y); sleep
DragLand ==
    /\ pc = "drag_loop"
    /\ i >= steps
    /\ events' = Append(events, move_mouse(call.end_x, call.end_y, call.screen))
    /\ pc' = "drag_up"
    /\ UNCHANGED <<call, result, oscalls, dpiAttempted, button, steps, i>>

\* drag: mouse_up(); return
DragUp ==
    /\ pc = "drag_up"
    /\ events' = Append(events, mouse_up(TRUE))
    /\ button' = IF IsButtonUp(mouse_up(TRUE)) THEN "up" ELSE button
    /\ pc' = "returned"
    /\ result' = NoneValue
    /\ UNCHANGED <<call, oscalls, dpiAttempted, steps, i>>

\* The caller takes the result and goes on to its next call.
Return ==
    /\ pc = "returned"
    /\ pc' = "idle"
    /\ call' = [op |-> "none"]
    /\ result' = NoneValue
    /\ oscalls' = <<>>
    /\ events' = <<>>
    /\ steps' = 0
    /\ i' = 0
    /\ UNCHANGED <<dpiAttempted, button>>

Next ==
    \/ ListVisibleWindows
    \/ FindWindow
    \/ GetRect
    \/ CaptureRect
    \/ CaptureWindow
    \/ CaptureMonitor
    \/ MoveTo
    \/ ClickAt
    \/ ClickDown
    \/ ClickUp
    \/ Drag
    \/ DragDown
    \/ DragStep
    \/ DragLand
    \/ DragUp
    \/ Return

Spec == Init /\ [][Next]_vars


\* --------------------------------------------------------------------------
\* Properties
\* --------------------------------------------------------------------------

Returned(op) == pc = "returned" /\ call.op = op

Sign(n) == IF n < 0 THEN -1 ELSE IF n > 0 THEN 1 ELSE 0

\* a / b rounded to the nearest integer, ties to even, in exact arithmetic (b > 0).
RoundDiv(a, b) ==
    LET q == Abs(a) \div b
        r == Abs(a) % b
        n == IF 2 * r > b \/ (2 * r = b /\ q % 2 = 1) THEN q + 1 ELSE q
    IN  Sign(a) * n

\* Entry k of the directory matches the query of the running find_window_hwnd.
EntryMatches(k) ==
    LET t == IF call.case_sensitive THEN call.windows[k][2] ELSE Lower(call.windows[k][2])
        q == IF call.case_sensitive THEN call.title_query ELSE Lower(call.title_query)
    IN  IF call.exact THEN t = q ELSE Contains(q, t)

\* C1: find_window_hwnd returns the handle of the first entry, in directory
\* order, whose normalized title equals (exact) or contains (not exact) the
\* normalized query, and None - never an exception - exactly when no entry
\* matches, the empty directory included.
C1_FindFirstMatch ==
    Returned("find_window_hwnd") =>
        LET n       == Len(call.windows)
            matches == { k \in 1..n : EntryMatches(k) }
        IN  /\ result.kind # "raise"
            /\ (matches = {}) <=> (result = NoneValue)
            /\ matches # {} =>
                 \E k \in matches :
                    /\ \A l \in matches : k <= l
                    /\ result = Value("hwnd", call.windows[k][1])

\* Two entries match a query that differs from both titles in case only or
\* is a proper substring, and the first one's handle is returned.
C1_Witness ==
    /\ Returned("find_window_hwnd")
    /\ Len(call.windows) = 2
    /\ ~call.case_sensitive
    /\ ~call.exact
    /\ call.title_query # <<>>
    /\ EntryMatches(1) /\ EntryMatches(2)
    /\ call.windows[1][2] # call.windows[2][2]
    /\ call.windows[1][2] # call.title_query
    /\ result = Value("hwnd", HwndAt(1))

InDrag == call.op = "drag"

DragStart == <<call.start_x, call.start_y>>

DragEnd == <<call.end_x, call.end_y>>

\* C2: drag injects MoveTo(start), ButtonDown, the interpolated moves, the
\* corrective MoveTo(end) and ButtonUp in this order and no other button
\* event; the button is held from the press until the release, and is up
\* when drag returns.
C2_DragOrder ==
    InDrag =>
        /\ Len(events) >= 1
        /\ IsMove(events[1]) /\ events[1].target = DragStart
        /\ Len(events) >= 2 => events[2] = MouseInput(0, 0, MOUSEEVENTF_LEFTDOWN, <<>>)
        /\ Len(events) >= 2 => Len(events) <= steps + 4
        /\ \A k \in 3..Len(events) :
              IF k <= steps + 3 THEN IsMove(events[k])
              ELSE events[k] = MouseInput(0, 0, MOUSEEVENTF_LEFTUP, <<>>)
        /\ Len(events) >= steps + 3 /\ steps > 0 => events[steps + 3].target = DragEnd
        /\ (button = "down") <=> (Len(events) >= 2 /\ Len(events) <= steps + 3)
        /\ pc = "returned" => Len(events) = steps + 4 /\ button = "up"

\* A drag between two different points has returned.
C2_Witness ==
    /\ Returned("drag")
    /\ DragStart # DragEnd
    /\ Len(events) = steps + 4
    /\ steps > MinSteps
    /\ IsButtonUp(events[Len(events)])

\* C3: the last position drag injects before ButtonUp is exactly the end
\* point, and a drag from a point to itself still presses, makes every
\* interpolation step and releases, with every move on that point.
C3_DragLandsOnEnd ==
    InDrag =>
        /\ pc \in {"drag_up", "returned"} =>
             LET k == IF pc = "returned" THEN Len(events) - 1 ELSE Len(events)
             IN  /\ IsMove(events[k])
                 /\ events[k].target = DragEnd
                 /\ events[k].dx = TruncDiv(call.end_x * AbsMax, call.screen[1])
                 /\ events[k].dy = TruncDiv(call.end_y * AbsMax, call.screen[2])
        /\ pc = "returned" => IsButtonUp(events[Len(events)])
        /\ DragStart = DragEnd =>
             /\ \A k \in 1..Len(events) : IsMove(events[k]) => events[k].target = DragStart
             /\ pc = "returned" =>
                  /\ Cardinality({k \in 1..Len(events) : IsMove(events[k])}) >= MinSteps + 2
                  /\ Cardinality({k \in 1..Len(events) : IsButtonDown(events[k])}) = 1
                  /\ Cardinality({k \in 1..Len(events) : IsButtonUp(events[k])}) = 1

\* A drag from a point to itself has returned.
C3_Witness ==
    /\ Returned("drag")
    /\ DragStart = DragEnd
    /\ DragStart # <<0, 0>>
    /\ Len(events) = steps + 4
    /\ events[Len(events) - 1].target = DragEnd

\* C4 as stated: move_mouse injects round(x * 65535 / width) and
\* round(y * 65535 / height).
C4_AbsoluteIsRounded ==
    Returned("move_mouse") =>
        /\ events[1].dx = RoundDiv(call.x * AbsMax, call.screen[1])
        /\ events[1].dy = RoundDiv(call.y * AbsMax, call.screen[2])

\* C4, amended: every move event carries x * 65535 / width and
\* y * 65535 / height truncated toward zero, each axis on its own, flagged
\* as an absolute move.
C4_AbsoluteIsTruncated ==
    /\ Returned("move_mouse") => Len(events) = 1 /\ events[1].target = <<call.x, call.y>>
    /\ call.op \in {"move_mouse", "click_at", "drag"} =>
         \A k \in 1..Len(events) :
            IsMove(events[k]) =>
               /\ events[k].dx = TruncDiv(events[k].target[1] * AbsMax, call.screen[1])
               /\ events[k].dy = TruncDiv(events[k].target[2] * AbsMax, call.screen[2])
               /\ events[k].dwFlags = MOUSEEVENTF_MOVE + MOUSEEVENTF_ABSOLUTE

\* move_mouse has injected a position where truncating and rounding differ
\* on both axes, one of them negative.
C4_Witness ==
    /\ Returned("move_mouse")
    /\ call.x < 0
    /\ events[1].dx # RoundDiv(call.x * AbsMax, call.screen[1])
    /\ events[1].dy # RoundDiv(call.y * AbsMax, call.screen[2])
    /\ events[1].dx = TruncDiv(call.x * AbsMax, call.screen[1])

IsAwarenessCall(c) == c.api = "SetProcessDpiAwareness"

IsGeometryOrCapture(c) ==
    c.api \in {"ClientToScreen", "GetClientRect", "GetWindowRect", "grab"}

\* C5: display awareness has been attempted before any geometry query or
\* capture call of the process: earlier in the same operation, or by an
\* earlier operation.
C5_AwarenessBeforeGeometryOrCapture ==
    \A k \in 1..Len(oscalls) :
        IsGeometryOrCapture(oscalls[k]) =>
            \/ \E j \in 1..(k - 1) : IsAwarenessCall(oscalls[j])
            \/ (dpiAttempted /\ \A j \in 1..Len(oscalls) : ~IsAwarenessCall(oscalls[j]))

GrabCalls == { k \in 1..Len(oscalls) : oscalls[k].api = "grab" }

\* C6: capture_fullscreen_rgb with monitor_index outside [0, count - 1]
\* raises and makes no grab call; inside that range it makes exactly one
\* grab, of the monitor selected.
C6_MonitorIndexChecked ==
    Returned("capture_fullscreen_rgb") =>
        IF call.monitor_index < 0 \/ call.monitor_index > call.count - 1
        THEN result = Raised("ValueError") /\ GrabCalls = {}
        ELSE /\ Cardinality(GrabCalls) = 1
             /\ \A k \in GrabCalls :
                   oscalls[k].arg.left = call.monitor_index * oscalls[k].arg.width
             /\ result.kind = "rgb"

\* The first index past the range was refused without a grab.
C6_Witness ==
    /\ Returned("capture_fullscreen_rgb")
    /\ call.monitor_index = call.count
    /\ result = Raised("ValueError")
    /\ oscalls = <<>>

\* C7: click_at injects exactly MoveTo(x, y), ButtonDown, ButtonUp, in this
\* order, and the button is up when it returns.
C7_ClickOrder ==
    call.op = "click_at" =>
        /\ Len(events) >= 1 /\ Len(events) <= 3
        /\ IsMove(events[1]) /\ events[1].target = <<call.x, call.y>>
        /\ Len(events) >= 2 => events[2] = MouseInput(0, 0, MOUSEEVENTF_LEFTDOWN, <<>>)
        /\ Len(events) >= 3 => events[3] = MouseInput(0, 0, MOUSEEVENTF_LEFTUP, <<>>)
        /\ (button = "down") <=> (Len(events) = 2)
        /\ pc = "returned" => Len(events) = 3 /\ button = "up"

\* A click has returned.
C7_Witness ==
    /\ Returned("click_at")
    /\ Len(events) = 3
    /\ IsButtonDown(events[2])
    /\ IsButtonUp(events[3])
    /\ button = "up"

\* C8 as stated: a rect with right < left or bottom < top has width 0 and
\* height 0.
C8_MalformedRectIsEmpty ==
    Returned("capture_rect_bgra")
        /\ (call.rect.right < call.rect.left \/ call.rect.bottom < call.rect.top)
      => (oscalls[1].arg.width = 0 /\ oscalls[1].arg.height = 0)

\* C8, amended: width is 0 when right < left and right - left otherwise,
\* height is 0 when bottom < top and bottom - top otherwise, each on its
\* own; neither is ever negative.
C8_RectClampedPerAxis ==
    Returned("capture_rect_bgra") =>
        LET r == call.rect
            g == oscalls[1].arg
        IN  /\ g.width = (IF r.right < r.left THEN 0 ELSE r.right - r.left)
            /\ g.height = (IF r.bottom < r.top THEN 0 ELSE r.bottom - r.top)
            /\ g.width >= 0 /\ g.height >= 0
            /\ g.left = r.left /\ g.top = r.top

\* A rect malformed on one axis only: its width is clamped, its height kept.
C8_Witness ==
    /\ Returned("capture_rect_bgra")
    /\ call.rect.right < call.rect.left
    /\ call.rect.bottom > call.rect.top
    /\ oscalls[1].arg.width = 0
    /\ oscalls[1].arg.height = call.rect.bottom - call.rect.top

\* The duration of the running drag in sixteenths of a second.
DurationSixteenths == call.duration.int * 16 + call.duration.frac[1] \div 2^(LimbBits - 4)

\* The exact value of start + (end - start) * (n / steps), times steps.
ExactTimesSteps(start, end, n) == start * steps + (end - start) * n

\* C9 as stated: drag makes max(10, round(duration * 60)) interpolated moves
\* and the i-th targets start + (end - start) * (i + 1) / steps rounded
\* toward zero.
C9_StepsRoundedExactTargets ==
    Returned("drag") =>
        /\ steps = Max(MinSteps, RoundDiv(DurationSixteenths * UpdatesPerSecond, 16))
        /\ Len(events) = steps + 4
        /\ \A n \in 1..steps :
              /\ events[n + 2].target[1]
                    = TruncDiv(ExactTimesSteps(call.start_x, call.end_x, n), steps)
              /\ events[n + 2].target[2]
                    = TruncDiv(ExactTimesSteps(call.start_y, call.end_y, n), steps)

\* What int(start + (end - start) * t) can be for t = n / steps: the exact
\* value truncated toward zero, or, only when the exact value is an integer,
\* the integer next to it toward zero.
NearExact(v, start, end, n) ==
    LET e == ExactTimesSteps(start, end, n)
        k == TruncDiv(e, steps)
    IN  \/ v = k
        \/ e % steps = 0 /\ v = k - Sign(k)

\* C9, amended: drag makes max(10, duration * 60 truncated) interpolated
\* moves between ButtonDown and the corrective move; the i-th targets
\* start + (end - start) * t, t = (i + 1) / steps, evaluated in double
\* precision and truncated toward zero.
C9_StepsTruncatedFloatTargets ==
    InDrag /\ Len(events) >= 2 =>
        /\ steps = Max(MinSteps, TruncDiv(DurationSixteenths * UpdatesPerSecond, 16))
        /\ pc = "returned" => Len(events) = steps + 4
        /\ \A n \in 1..steps :
              n + 2 <= Len(events) =>
                 /\ NearExact(events[n + 2].target[1], call.start_x, call.end_x, n)
                 /\ NearExact(events[n + 2].target[2], call.start_y, call.end_y, n)
        /\ Len(events) >= steps + 2 => events[steps + 2].target = DragEnd

\* A drag has returned in which an interpolated target fell one short of
\* the exact value.
C9_Witness ==
    /\ Returned("drag")
    /\ steps > MinSteps
    /\ \E n \in 1..steps :
          /\ ExactTimesSteps(call.start_x, call.end_x, n) % steps = 0
          /\ events[n + 2].target[1]
                # TruncDiv(ExactTimesSteps(call.start_x, call.end_x, n), steps)

====
